---------------------------- MODULE Spec2Model ----------------------------
(***************************************************************************)
(* A model of the backtracking token buffer of src/src/lib.rs: the Parser  *)
(* (an immutable input and an index), its read primitives get and peek,    *)
(* and the combinators with_rollback, option, list and or, which run a     *)
(* caller-supplied parsing function on a clone of the Parser and commit    *)
(* the clone's index on success.                                           *)
(*                                                                         *)
(* The call stack is explicit.  stack[1] is the Parser the outermost       *)
(* caller owns; stack[k+1] holds the clone `ops` that the combinator       *)
(* called on stack[k]'s Parser made, together with that combinator's       *)
(* locals (rets, errors, the alternative being tried) and the parsing      *)
(* function that is running on the clone.  A parsing function is either    *)
(* "any", an arbitrary caller-supplied function that performs any sequence *)
(* of operations on its Parser and returns any value or error, or one of   *)
(* the closures of the repository's tests.  The outermost caller passes    *)
(* any of these to the combinators; an arbitrary function passes the       *)
(* closures of the tests to the combinators it calls.                      *)
(*                                                                         *)
(* Spec is the Parser under an arbitrary caller.  SpecEvenOdd is the test  *)
(* should_get_or on every input of small naturals, and SpecNested nests    *)
(* the combinators in one another through functions that pass on the       *)
(* error of the combinator they call.                                      *)
(***************************************************************************)
EXTENDS Integers, Sequences, FiniteSets, TLC

MaxLen == 3      \* longest input
MaxAlts == 2     \* most alternatives given to or
MaxRets == 3     \* most values a list call accumulates
MaxToken == 3    \* largest token of the inputs whose tokens are inspected
MaxDepth == 4    \* deepest stack of nested functions that pass errors on

Values == {0, 1}

VARIABLES input, eofFatal, stack

vars == <<input, eofFatal, stack>>

RECURSIVE SeqsUpTo(_, _)
SeqsUpTo(S, n) ==
    IF n = 0 THEN {<<>>}
    ELSE LET shorter == SeqsUpTo(S, n - 1)
         IN  shorter \cup {Append(s, x) : s \in {t \in shorter : Len(t) = n - 1}, x \in S}

(* The inputs: the Parser never inspects a token, so the token at each     *)
(* position is the position itself and a result tells where it was read.   *)
Inputs == {[i \in 1..n |-> i] : n \in 0..MaxLen}

---------------------------------------------------------------------------
(* Errors: a type E implementing JlnError.  A value is the end-of-input    *)
(* error, a caller's error that is fatal or not (TError(bool) of the       *)
(* tests), or an aggregate that keeps the errors it was built from.        *)

NoErr == [tag |-> "none", fatal |-> FALSE, parts |-> <<>>]

TError(b) == [tag |-> "user", fatal |-> b, parts |-> <<>>]

(* The error type () of the tests, which is never fatal.                   *)
unit == [tag |-> "unit", fatal |-> FALSE, parts |-> <<>>]

UserErrs == {TError(FALSE), TError(TRUE)}

eof == [tag |-> "eof", fatal |-> eofFatal, parts |-> <<>>]

is_fatal(e) == e.fatal

aggregate(errors) ==
    [tag |-> "agg",
     fatal |-> \E i \in 1..Len(errors) : is_fatal(errors[i]),
     parts |-> errors]

(* Results: Result<S, E>, with S a token or value, an Option or a Vec.     *)
Ok(x) == [ok |-> TRUE, ty |-> "val", v |-> <<x>>, err |-> NoErr]
OkSome(x) == [ok |-> TRUE, ty |-> "some", v |-> <<x>>, err |-> NoErr]
OkNone == [ok |-> TRUE, ty |-> "none", v |-> <<>>, err |-> NoErr]
OkVec(s) == [ok |-> TRUE, ty |-> "vec", v |-> s, err |-> NoErr]
Err(e) == [ok |-> FALSE, ty |-> "err", v |-> <<>>, err |-> e]
NoRes == [ok |-> FALSE, ty |-> "nores", v |-> <<>>, err |-> NoErr]

(* The bool that end returns, in the shape of the results.                 *)
Bool(b) == [ok |-> TRUE, ty |-> "bool", v |-> <<b>>, err |-> NoErr]

---------------------------------------------------------------------------
(* The read primitives, on a Parser with the given index.                  *)

(* peek that consumes the element it returns, as get does.                 *)
peek_advances(index) ==
    IF index < Len(input)
    THEN [index |-> index + 1, result |-> Ok(input[index + 1])]
    ELSE [index |-> index, result |-> Err(eof)]

peek(index) ==
    IF index < Len(input)
    THEN [index |-> index, result |-> Ok(input[index + 1])]
    ELSE [index |-> index, result |-> Err(eof)]

(* get that advances the index at the end of the input too.                *)
get_advances_always(index) ==
    IF index < Len(input)
    THEN [index |-> index + 1, result |-> Ok(input[index + 1])]
    ELSE [index |-> index + 1, result |-> Err(eof)]

get(index) ==
    IF index < Len(input)
    THEN [index |-> index + 1, result |-> Ok(input[index + 1])]
    ELSE [index |-> index, result |-> Err(eof)]

(* end that holds only past the last element.                              *)
end_past(index) == index > Len(input)

end(index) == index >= Len(input)

(* The combinators, from the point where the parsing function has returned *)
(* r with the clone at index ops, self being at index self.  ret tells     *)
(* whether the combinator returns now; index is self.index afterwards.     *)

(* with_rollback that copies the clone's index back before looking at the  *)
(* result.                                                                 *)
with_rollback_commits_first(self, ops, r) ==
    [ret |-> TRUE, index |-> ops, result |-> r]

(* with_rollback that on failure rewinds the Parser to the start of the    *)
(* input.                                                                  *)
with_rollback_rewinds(self, ops, r) ==
    IF r.ok
    THEN [ret |-> TRUE, index |-> ops, result |-> r]
    ELSE [ret |-> TRUE, index |-> 0, result |-> r]

(* with_rollback that never copies the clone's index back.                 *)
with_rollback_never_commits(self, ops, r) ==
    [ret |-> TRUE, index |-> self, result |-> r]

with_rollback(self, ops, r) ==
    IF r.ok
    THEN [ret |-> TRUE, index |-> ops, result |-> r]
    ELSE [ret |-> TRUE, index |-> self, result |-> r]

(* option that copies the clone's index back before looking at the result. *)
option_commits_first(self, ops, r) ==
    IF r.ok THEN [ret |-> TRUE, index |-> ops, result |-> OkSome(r.v[1])]
    ELSE IF is_fatal(r.err) THEN [ret |-> TRUE, index |-> ops, result |-> r]
    ELSE [ret |-> TRUE, index |-> ops, result |-> OkNone]

(* option without the arm for fatal errors: every error becomes None.      *)
option_without_fatal(self, ops, r) ==
    IF r.ok THEN [ret |-> TRUE, index |-> ops, result |-> OkSome(r.v[1])]
    ELSE [ret |-> TRUE, index |-> self, result |-> OkNone]

option(self, ops, r) ==
    IF r.ok THEN [ret |-> TRUE, index |-> ops, result |-> OkSome(r.v[1])]
    ELSE IF is_fatal(r.err) THEN [ret |-> TRUE, index |-> self, result |-> r]
    ELSE [ret |-> TRUE, index |-> self, result |-> OkNone]

(* list that copies the clone's index back before looking at the result.   *)
list_commits_first(self, ops, r, rets) ==
    IF r.ok
    THEN [ret |-> FALSE, index |-> ops, rets |-> Append(rets, r.v[1]), result |-> NoRes]
    ELSE IF is_fatal(r.err)
    THEN [ret |-> TRUE, index |-> ops, rets |-> rets, result |-> r]
    ELSE [ret |-> TRUE, index |-> ops, rets |-> rets, result |-> OkVec(rets)]

(* list without the arm for fatal errors: every error ends the loop.       *)
list_without_fatal(self, ops, r, rets) ==
    IF r.ok
    THEN [ret |-> FALSE, index |-> ops, rets |-> Append(rets, r.v[1]), result |-> NoRes]
    ELSE [ret |-> TRUE, index |-> self, rets |-> rets, result |-> OkVec(rets)]

(* list that inserts each value at the front of rets.                      *)
list_inserts_first(self, ops, r, rets) ==
    IF r.ok
    THEN [ret |-> FALSE, index |-> ops, rets |-> <<r.v[1]>> \o rets, result |-> NoRes]
    ELSE IF is_fatal(r.err)
    THEN [ret |-> TRUE, index |-> self, rets |-> rets, result |-> r]
    ELSE [ret |-> TRUE, index |-> self, rets |-> rets, result |-> OkVec(rets)]

(* list that never copies the clone's index back.                          *)
list_never_commits(self, ops, r, rets) ==
    IF r.ok
    THEN [ret |-> FALSE, index |-> self, rets |-> Append(rets, r.v[1]), result |-> NoRes]
    ELSE IF is_fatal(r.err)
    THEN [ret |-> TRUE, index |-> self, rets |-> rets, result |-> r]
    ELSE [ret |-> TRUE, index |-> self, rets |-> rets, result |-> OkVec(rets)]

list(self, ops, r, rets) ==
    IF r.ok
    THEN [ret |-> FALSE, index |-> ops, rets |-> Append(rets, r.v[1]), result |-> NoRes]
    ELSE IF is_fatal(r.err)
    THEN [ret |-> TRUE, index |-> self, rets |-> rets, result |-> r]
    ELSE [ret |-> TRUE, index |-> self, rets |-> rets, result |-> OkVec(rets)]

(* or that lets self follow the clone of an alternative that failed, so    *)
(* that the next alternative starts where the failed one stopped.          *)
or_continues_from_failed(self, ops, r, errors, more) ==
    IF r.ok
    THEN [ret |-> TRUE, index |-> ops, errors |-> errors, result |-> r]
    ELSE IF is_fatal(r.err)
    THEN [ret |-> TRUE, index |-> self, errors |-> errors, result |-> r]
    ELSE IF more
    THEN [ret |-> FALSE, index |-> ops, errors |-> Append(errors, r.err), result |-> NoRes]
    ELSE [ret |-> TRUE, index |-> ops, errors |-> Append(errors, r.err),
          result |-> Err(aggregate(Append(errors, r.err)))]

(* or without the arm for fatal errors: every error is collected.          *)
or_without_fatal(self, ops, r, errors, more) ==
    IF r.ok
    THEN [ret |-> TRUE, index |-> ops, errors |-> errors, result |-> r]
    ELSE IF more
    THEN [ret |-> FALSE, index |-> self, errors |-> Append(errors, r.err), result |-> NoRes]
    ELSE [ret |-> TRUE, index |-> self, errors |-> Append(errors, r.err),
          result |-> Err(aggregate(Append(errors, r.err)))]

(* or that inserts each error at the front of errors.                      *)
or_inserts_first(self, ops, r, errors, more) ==
    IF r.ok
    THEN [ret |-> TRUE, index |-> ops, errors |-> errors, result |-> r]
    ELSE IF is_fatal(r.err)
    THEN [ret |-> TRUE, index |-> self, errors |-> errors, result |-> r]
    ELSE IF more
    THEN [ret |-> FALSE, index |-> self, errors |-> <<r.err>> \o errors, result |-> NoRes]
    ELSE [ret |-> TRUE, index |-> self, errors |-> <<r.err>> \o errors,
          result |-> Err(aggregate(<<r.err>> \o errors))]

(* or that gives aggregate the error of the last alternative only.         *)
or_keeps_last(self, ops, r, errors, more) ==
    IF r.ok
    THEN [ret |-> TRUE, index |-> ops, errors |-> errors, result |-> r]
    ELSE IF is_fatal(r.err)
    THEN [ret |-> TRUE, index |-> self, errors |-> errors, result |-> r]
    ELSE IF more
    THEN [ret |-> FALSE, index |-> self, errors |-> <<r.err>>, result |-> NoRes]
    ELSE [ret |-> TRUE, index |-> self, errors |-> <<r.err>>,
          result |-> Err(aggregate(<<r.err>>))]

or(self, ops, r, errors, more) ==
    IF r.ok
    THEN [ret |-> TRUE, index |-> ops, errors |-> errors, result |-> r]
    ELSE IF is_fatal(r.err)
    THEN [ret |-> TRUE, index |-> self, errors |-> errors, result |-> r]
    ELSE IF more
    THEN [ret |-> FALSE, index |-> self, errors |-> Append(errors, r.err), result |-> NoRes]
    ELSE [ret |-> TRUE, index |-> self, errors |-> Append(errors, r.err),
          result |-> Err(aggregate(Append(errors, r.err)))]

clone(index) == index

---------------------------------------------------------------------------
(* Parsing functions.  "any" is an arbitrary caller-supplied function;     *)
(* "get" is the closure of should_get_list, which returns the token that   *)
(* get yields and passes on the error with which get fails.                *)

CbKinds == {"any", "get"}

(* The functions that the code running in frame k passes to a combinator:  *)
(* the outermost caller any function, an arbitrary function the closures   *)
(* of the tests, which call no combinator, so that the stack holds at most *)
(* the caller's Parser, the clone of an arbitrary function and the clone   *)
(* of a closure.                                                           *)
Passable(k) == IF k = 1 THEN CbKinds ELSE CbKinds \ {"any"}

(* The arrays of alternatives given to or: up to MaxAlts functions.        *)
Targets(k) == SeqsUpTo(Passable(k), MaxAlts)

(* What the code running in a frame remembers of the last operation it     *)
(* performed on its Parser: the operation and its result r, with the       *)
(* record of the call: self.index at entry (before), the parsing functions *)
(* given (targets), what each invocation of a parsing function returned    *)
(* (cbs), the index the clone had reached when the last invocation         *)
(* returned (end) and when the one before it returned (prev), the index of *)
(* the clone at the last successful return (committed), and whether a      *)
(* combinator that the last invocation called had advanced the clone       *)
(* (nested), and whether an invocation succeeded with its clone at the     *)
(* index the clone was made at (idle).                                     *)
NoOp ==
    [op |-> "none", r |-> NoRes, before |-> 0, targets |-> <<>>,
     cbs |-> <<>>, end |-> 0, prev |-> 0, committed |-> 0, nested |-> FALSE,
     idle |-> FALSE]

OpRes(op, r, before) == [NoOp EXCEPT !.op = op, !.r = r, !.before = before]

(* The frame of a combinator called on a Parser at index self: its clone   *)
(* ops (index), its locals, and the parsing function targets[alt] that it  *)
(* has invoked on the clone.  start is self.index at the combinator's      *)
(* entry and from the index the present clone was made at.                 *)
Frame(comb, targets, self) ==
    [comb |-> comb, targets |-> targets, alt |-> 1, index |-> clone(self),
     rets |-> <<>>, errors |-> <<>>, res |-> NoOp,
     start |-> self, from |-> clone(self), cbs |-> <<>>, prev |-> self,
     committed |-> self, nested |-> FALSE, idle |-> FALSE]

Top == Len(stack)

Running == stack[Top].targets[stack[Top].alt]

(* The functions even and odd of should_get_or, from the point where get   *)
(* has returned r: the error of get is passed on, an even token is true    *)
(* for even and an odd one false for odd, any other an error.              *)
even(r) ==
    IF ~r.ok THEN Err(r.err)
    ELSE IF r.v[1] % 2 = 0 THEN Ok(TRUE) ELSE Err(unit)

odd(r) ==
    IF ~r.ok THEN Err(r.err)
    ELSE IF r.v[1] % 2 = 1 THEN Ok(FALSE) ELSE Err(unit)

(* The functions even and odd of should_early_exit_or_on_fatal: the error  *)
(* of even is fatal.                                                       *)
even_TError(r) ==
    IF ~r.ok THEN Err(r.err)
    ELSE IF r.v[1] % 2 = 0 THEN Ok(TRUE) ELSE Err(TError(TRUE))

odd_TError(r) ==
    IF ~r.ok THEN Err(r.err)
    ELSE IF r.v[1] % 2 = 1 THEN Ok(FALSE) ELSE Err(TError(FALSE))

(* The functions that read one token with get and return.                  *)
Readers == {"get", "even", "odd", "even_TError", "odd_TError"}

(* The functions that call one combinator and pass its error on: "wrap"    *)
(* returns the value of with_rollback and or, and true after option and    *)
(* list.                                                                   *)
Combinators == {"with_rollback", "option", "list", "or"}

wrap(r) == IF ~r.ok \/ r.ty = "val" THEN r ELSE Ok(TRUE)

(* The functions that "wrap" running in frame k passes to a combinator:    *)
(* the functions of the tests whose error type is TError, and "wrap" while *)
(* the stack may grow; to or it passes two alternatives, as the tests do.  *)
Leaves == {"even_TError", "odd_TError", "fatal"}

Nestable(k) == Leaves \cup (IF k + 1 < MaxDepth THEN {"wrap"} ELSE {})

(* The calls <<combinator, functions>> that function f makes in frame k:   *)
(* the body of should_get_or, its closure, and "wrap".                     *)
CallsOf(f, k) ==
    CASE f = "should_get_or" -> {<<"list", <<"or_even_odd">>>>}
      [] f = "or_even_odd" -> {<<"or", <<"even", "odd">>>>}
      [] f = "wrap" ->
            {<<c, <<g>>>> : c \in Combinators \ {"or"}, g \in Nestable(k)}
                \cup {<<"or", <<g, h>>>> : g \in Nestable(k), h \in Leaves}
      [] OTHER -> {}

(* The results the parsing function running in frame fr may return now.    *)
CbReturns(fr) ==
    LET cb == fr.targets[fr.alt]
        failed == fr.res.op # "none" /\ ~fr.res.r.ok
    IN  CASE cb = "any" ->
                {Ok(x) : x \in Values} \cup {Err(e) : e \in UserErrs}
                    \cup (IF failed THEN {Err(fr.res.r.err)} ELSE {})
          [] cb = "fatal" -> {Err(TError(TRUE))}
          [] cb \in Readers /\ fr.res.op = "get" ->
                {CASE cb = "get" ->
                        IF fr.res.r.ok THEN Ok(fr.res.r.v[1]) ELSE Err(fr.res.r.err)
                   [] cb = "even" -> even(fr.res.r)
                   [] cb = "odd" -> odd(fr.res.r)
                   [] cb = "even_TError" -> even_TError(fr.res.r)
                   [] cb = "odd_TError" -> odd_TError(fr.res.r)}
          [] cb = "or_even_odd" /\ fr.res.op = "or" -> {fr.res.r}
          [] cb = "wrap" /\ fr.res.op \in Combinators -> {wrap(fr.res.r)}
          [] OTHER -> {}

(* The combinator of frame fr returns out to its caller, the parsing       *)
(* function having returned r.                                             *)
Return(fr, out, r) ==
    LET k == Top - 1
        done == [op |-> fr.comb, r |-> out.result, before |-> fr.start,
                 targets |-> fr.targets, cbs |-> Append(fr.cbs, r),
                 end |-> fr.index, prev |-> fr.prev,
                 committed |-> IF r.ok THEN fr.index ELSE fr.committed,
                 nested |-> fr.nested,
                 idle |-> fr.idle \/ (r.ok /\ fr.index = fr.from)]
    IN  [i \in 1..k |->
            IF i = k
            THEN [stack[k] EXCEPT !.index = out.index, !.res = done,
                                  !.nested = @ \/ out.index > stack[k].index]
            ELSE stack[i]]

(* The combinator of frame fr goes round its loop: the next parsing        *)
(* function runs on a fresh clone of self.                                 *)
Again(fr, out, r, alt) ==
    LET k == Top - 1
        next == [fr EXCEPT !.alt = alt, !.index = clone(out.index), !.res = NoOp,
                           !.nested = FALSE,
                           !.from = clone(out.index),
                           !.cbs = Append(fr.cbs, r),
                           !.prev = fr.index,
                           !.committed = IF r.ok THEN fr.index ELSE fr.committed,
                           !.idle = @ \/ (r.ok /\ fr.index = fr.from)]
    IN  [i \in 1..Top |->
            IF i = k
            THEN [stack[k] EXCEPT !.index = out.index,
                                  !.nested = @ \/ out.index > stack[k].index]
            ELSE IF i = Top THEN next
            ELSE stack[i]]

---------------------------------------------------------------------------
Init ==
    /\ input \in Inputs
    /\ eofFatal \in BOOLEAN
    /\ stack = <<Frame("top", <<"any">>, 0)>>

(* get that removes from the input the element it returns.                 *)
Get_drains ==
    /\ Running = "any" \/ (Running \in Readers /\ stack[Top].res.op = "none")
    /\ LET fr == stack[Top]
           g == get(fr.index)
       IN  /\ stack' = [stack EXCEPT ![Top].res = OpRes("get", g.result, fr.index)]
           /\ input' = IF g.result.ok
                       THEN SubSeq(input, 1, fr.index) \o SubSeq(input, fr.index + 2, Len(input))
                       ELSE input
    /\ UNCHANGED eofFatal

Get ==
    /\ Running = "any" \/ (Running \in Readers /\ stack[Top].res.op = "none")
    /\ LET fr == stack[Top]
           g == get(fr.index)
       IN  stack' = [stack EXCEPT ![Top].index = g.index,
                                  ![Top].res = OpRes("get", g.result, fr.index)]
    /\ UNCHANGED <<input, eofFatal>>

Peek ==
    /\ Running = "any"
    /\ LET fr == stack[Top]
           g == peek(fr.index)
       IN  stack' = [stack EXCEPT ![Top].index = g.index,
                                  ![Top].res = OpRes("peek", g.result, fr.index)]
    /\ UNCHANGED <<input, eofFatal>>

End ==
    /\ Running = "any"
    /\ LET fr == stack[Top]
       IN  stack' = [stack EXCEPT ![Top].res = OpRes("end", Bool(end(fr.index)), fr.index)]
    /\ UNCHANGED <<input, eofFatal>>

(* The arrays of functions that the running code may pass to comb now.     *)
Args(comb) ==
    IF Running = "any"
    THEN IF comb = "or" THEN Targets(Top) \ {<<>>}
         ELSE {<<f>> : f \in Passable(Top)}
    ELSE IF stack[Top].res.op = "none"
    THEN {c[2] : c \in {d \in CallsOf(Running, Top) : d[1] = comb}}
    ELSE {}

Call(comb, targets) ==
    /\ targets \in Args(comb)
    /\ stack' = Append([stack EXCEPT ![Top].res = NoOp],
                        Frame(comb, targets, stack[Top].index))
    /\ UNCHANGED <<input, eofFatal>>

CallWithRollback == \E targets \in Args("with_rollback") : Call("with_rollback", targets)

CallOption == \E targets \in Args("option") : Call("option", targets)

CallList == \E targets \in Args("list") : Call("list", targets)

CallOr == \E targets \in Args("or") : Call("or", targets)

(* or with no alternatives: the loop body never runs.                      *)
CallOrEmpty ==
    /\ Running = "any"
    /\ LET fr == stack[Top]
           done == [OpRes("or", Err(aggregate(<<>>)), fr.index) EXCEPT !.targets = <<>>]
       IN  stack' = [stack EXCEPT ![Top].res = done]
    /\ UNCHANGED <<input, eofFatal>>

WithRollbackReturn ==
    /\ stack[Top].comb = "with_rollback"
    /\ \E r \in CbReturns(stack[Top]) :
          LET fr == stack[Top]
              out == with_rollback(stack[Top - 1].index, fr.index, r)
          IN  stack' = Return(fr, out, r)
    /\ UNCHANGED <<input, eofFatal>>

OptionReturn ==
    /\ stack[Top].comb = "option"
    /\ \E r \in CbReturns(stack[Top]) :
          LET fr == stack[Top]
              out == option(stack[Top - 1].index, fr.index, r)
          IN  stack' = Return(fr, out, r)
    /\ UNCHANGED <<input, eofFatal>>

ListReturn ==
    /\ stack[Top].comb = "list"
    /\ \E r \in CbReturns(stack[Top]) :
          LET fr == stack[Top]
              out == list(stack[Top - 1].index, fr.index, r, fr.rets)
          IN  /\ r.ok => Len(fr.rets) < MaxRets
              /\ stack' = IF out.ret THEN Return(fr, out, r)
                          ELSE Again([fr EXCEPT !.rets = out.rets], out, r, fr.alt)
    /\ UNCHANGED <<input, eofFatal>>

OrReturn ==
    /\ stack[Top].comb = "or"
    /\ \E r \in CbReturns(stack[Top]) :
          LET fr == stack[Top]
              more == fr.alt < Len(fr.targets)
              out == or(stack[Top - 1].index, fr.index, r, fr.errors, more)
          IN  stack' = IF out.ret THEN Return(fr, out, r)
                       ELSE Again([fr EXCEPT !.errors = out.errors], out, r, fr.alt + 1)
    /\ UNCHANGED <<input, eofFatal>>

Next ==
    \/ Get
    \/ Peek
    \/ End
    \/ CallWithRollback
    \/ CallOption
    \/ CallList
    \/ CallOr
    \/ CallOrEmpty
    \/ WithRollbackReturn
    \/ OptionReturn
    \/ ListReturn
    \/ OrReturn

Spec == Init /\ [][Next]_vars

(* The test should_get_or on every input of tokens up to MaxToken: list    *)
(* of the closure that calls or of even and odd; (), the error type, is    *)
(* never fatal.                                                            *)
InitEvenOdd ==
    /\ input \in SeqsUpTo(0..MaxToken, MaxLen)
    /\ eofFatal = FALSE
    /\ stack = <<Frame("top", <<"should_get_or">>, 0)>>

NextEvenOdd ==
    \/ Get
    \/ CallList
    \/ CallOr
    \/ ListReturn
    \/ OrReturn

SpecEvenOdd == InitEvenOdd /\ [][NextEvenOdd]_vars

(* Combinators nested in one another by functions that pass errors on,     *)
(* with the error type TError of the tests, whose eof() is not fatal.      *)
InitNested ==
    /\ input \in Inputs
    /\ eofFatal = FALSE
    /\ stack = <<Frame("top", <<"wrap">>, 0)>>

NextNested ==
    \/ Get
    \/ CallWithRollback
    \/ CallOption
    \/ CallList
    \/ CallOr
    \/ WithRollbackReturn
    \/ OptionReturn
    \/ ListReturn
    \/ OrReturn

SpecNested == InitNested /\ [][NextNested]_vars

---------------------------------------------------------------------------
(* The properties.  Done is the record of the operation that the running   *)
(* code has just performed on its Parser, and Index that Parser's index.   *)

Done == stack[Top].res

Index == stack[Top].index

LastCb == Done.cbs[Len(Done.cbs)]

Fatal(r) == ~r.ok /\ is_fatal(r.err)

Ordinary(r) == ~r.ok /\ ~is_fatal(r.err)

ErrorsOf(cbs) == [i \in 1..Len(cbs) |-> cbs[i].err]

ValuesOf(cbs) == [i \in 1..Len(cbs) |-> cbs[i].v[1]]

AllButLast(s) == SubSeq(s, 1, Len(s) - 1)

(* C1: when the function given to with_rollback returns an error, fatal or *)
(* not, the Parser's index is what it was before the call, whatever the    *)
(* function did to the clone, and with_rollback returns that error.        *)
C1_RollbackOnFailure ==
    (Done.op = "with_rollback" /\ ~LastCb.ok)
        => (Index = Done.before /\ Done.r = LastCb)

C1_Witness ==
    /\ Done.op = "with_rollback"
    /\ ~LastCb.ok
    /\ Done.nested
    /\ Done.end > Done.before + 1
    /\ Done.before > 0

(* C2: every alternative of or runs on a clone made at the index the       *)
(* Parser had when or was called; the alternatives run one after the other *)
(* until one succeeds; the Parser takes the index of that alternative's    *)
(* clone, or returns its value, and no alternative runs after it.          *)
C2_OrFirstSuccess ==
    /\ \A k \in 2..Top :
          stack[k].comb = "or" =>
              /\ stack[k].from = stack[k].start
              /\ stack[k - 1].index = stack[k].start
              /\ \A i \in 1..Len(stack[k].cbs) : ~stack[k].cbs[i].ok
    /\ (Done.op = "or" /\ Len(Done.cbs) > 0 /\ LastCb.ok) =>
              /\ Index = Done.end
              /\ Done.r = LastCb
              /\ \A i \in 1..(Len(Done.cbs) - 1) : ~Done.cbs[i].ok

C2_Witness ==
    /\ Done.op = "or"
    /\ Len(Done.cbs) = 2
    /\ LastCb.ok
    /\ Done.prev > Done.before
    /\ Done.end > Done.before
    /\ Done.end # Done.prev

(* C3: when an alternative of or returns a fatal error, or returns that    *)
(* error and leaves the Parser's index as it was before the call; an or    *)
(* that is still running has seen no fatal error, so no alternative runs   *)
(* after one that failed fatally.                                          *)
C3_OrFatal ==
    /\ \A k \in 2..Top :
          stack[k].comb = "or" =>
              \A i \in 1..Len(stack[k].cbs) : ~Fatal(stack[k].cbs[i])
    /\ (Done.op = "or" /\ Len(Done.cbs) > 0 /\ Fatal(LastCb)) =>
              /\ Done.r = LastCb
              /\ Index = Done.before
              /\ \A i \in 1..(Len(Done.cbs) - 1) : ~Fatal(Done.cbs[i])

C3_Witness ==
    /\ Done.op = "or"
    /\ Len(Done.targets) = 2
    /\ Len(Done.cbs) = 1
    /\ Fatal(LastCb)
    /\ Done.end > Done.before

(* C4: when every alternative of or has failed with an error that is not   *)
(* fatal, there is one error for each alternative, or returns aggregate of *)
(* these errors in the order of the alternatives, and the Parser's index   *)
(* is what it was before the call.                                         *)
C4_OrAggregate ==
    (Done.op = "or" /\ \A i \in 1..Len(Done.cbs) : Ordinary(Done.cbs[i])) =>
        /\ Len(Done.cbs) = Len(Done.targets)
        /\ Done.r = Err(aggregate(ErrorsOf(Done.cbs)))
        /\ Index = Done.before

C4_Witness ==
    /\ Done.op = "or"
    /\ Len(Done.cbs) = 2
    /\ \A i \in 1..2 : Ordinary(Done.cbs[i])
    /\ Done.cbs[1].err # Done.cbs[2].err
    /\ Done.prev > Done.before

(* C5: when the function given to option fails with an error that is not   *)
(* fatal, option returns Ok(None) and the Parser's index is what it was    *)
(* before the call, whatever the function consumed on the clone.           *)
C5_OptionNone ==
    (Done.op = "option" /\ Ordinary(LastCb))
        => (Done.r = OkNone /\ Index = Done.before)

C5_Witness ==
    /\ Done.op = "option"
    /\ Ordinary(LastCb)
    /\ Done.end > Done.before

(* C6: when the function given to option or to list returns a fatal error, *)
(* the combinator returns that error; option runs its function once, and   *)
(* list runs its function again only after a success, so the function does *)
(* not run after the fatal error.                                          *)
C6_FatalPropagates ==
    /\ \A k \in 2..Top :
          /\ stack[k].comb = "list" =>
                \A i \in 1..Len(stack[k].cbs) : stack[k].cbs[i].ok
          /\ stack[k].comb = "option" => stack[k].cbs = <<>>
    /\ (Done.op \in {"option", "list"} /\ Fatal(LastCb)) => Done.r = LastCb
    /\ Done.op = "option" => Len(Done.cbs) = 1
    /\ Done.op = "list" => \A i \in 1..(Len(Done.cbs) - 1) : Done.cbs[i].ok

C6_Witness ==
    /\ Done.op = "list"
    /\ Len(Done.cbs) = 3
    /\ Fatal(LastCb)

(* C7: when list stops because its function failed with an error that is   *)
(* not fatal, it returns the values of the iterations before, in their     *)
(* order, and the Parser's index is the index of the clone of the last     *)
(* successful iteration, or with no such iteration the index before the    *)
(* call: what the failed iteration consumed is dropped.                    *)
C7_ListStops ==
    (Done.op = "list" /\ Ordinary(LastCb)) =>
        /\ \A i \in 1..(Len(Done.cbs) - 1) : Done.cbs[i].ok
        /\ Done.r = OkVec(ValuesOf(AllButLast(Done.cbs)))
        /\ Index = Done.committed
        /\ Len(Done.cbs) = 1 => (Index = Done.before /\ Done.r = OkVec(<<>>))

C7_Witness ==
    /\ Done.op = "list"
    /\ Ordinary(LastCb)
    /\ Len(Done.cbs) = 3
    /\ Done.cbs[1].v # Done.cbs[2].v
    /\ Done.committed > Done.before
    /\ Done.end > Done.committed

(* C8: when eof() is not fatal, list given the closure that returns what   *)
(* get returns, called at index i of an input of length n, returns the     *)
(* elements i..n-1 in order and leaves the index at n, where end() holds.  *)
C8_ListGet ==
    (Done.op = "list" /\ Done.targets = <<"get">> /\ ~eofFatal) =>
        /\ Done.r = OkVec(SubSeq(input, Done.before + 1, Len(input)))
        /\ Index = Len(input)
        /\ end(Index)

C8_Witness ==
    /\ Done.op = "list"
    /\ Done.targets = <<"get">>
    /\ ~eofFatal
    /\ input = <<1, 2, 3>>
    /\ Done.before = 0
    /\ Done.r = OkVec(<<1, 2, 3>>)
    /\ Index = 3

C10_Get ==
    Done.op = "get" =>
        IF Done.before < Len(input)
        THEN Done.r = Ok(input[Done.before + 1]) /\ Index = Done.before + 1
        ELSE Done.r = Err(eof) /\ Index = Done.before /\ Index = Len(input)

C10_Witness ==
    /\ Done.op = "get"
    /\ Len(input) = 3
    /\ Done.before = 3
    /\ Done.r = Err(eof)
    /\ Index = 3
    /\ Top = 1

(* C11: peek leaves the index where it is; below the end of the input it   *)
(* returns the element at the index, at the end it fails with eof(); and a *)
(* peek that follows a peek returns the same result at the same index.     *)
C11_Peek ==
    Done.op = "peek" =>
        /\ Index = Done.before
        /\ IF Done.before < Len(input)
           THEN Done.r = Ok(input[Done.before + 1])
           ELSE Done.before = Len(input) /\ Done.r = Err(eof)
        /\ peek(Index) = [index |-> Index, result |-> Done.r]

C11_Witness ==
    /\ Done.op = "peek"
    /\ Len(input) = 3
    /\ Done.before = 1
    /\ Done.r = Ok(2)
    /\ Index = 1
    /\ Top = 2

(* C12: the index of the Parser the caller owns and of every clone that a  *)
(* combinator has made lies between 0 and the length of the input.         *)
C12_IndexInBounds ==
    \A k \in 1..Top :
        /\ 0 <= stack[k].index
        /\ stack[k].index <= Len(input)
        /\ 0 <= stack[k].from
        /\ stack[k].from <= Len(input)

C12_Witness ==
    /\ Len(input) = 3
    /\ Top = 3
    /\ stack[1].index = 0
    /\ stack[2].index = 3
    /\ stack[3].index = 3
    /\ stack[3].res.op = "get"
    /\ ~stack[3].res.r.ok
(* C13: end() holds exactly when the index equals the length of the input, *)
(* on the caller's Parser and on every clone: it is false while elements   *)
(* remain and true on an empty input at index 0; end() moves no index.     *)
C13_End ==
    /\ \A k \in 1..Top : end(stack[k].index) <=> stack[k].index = Len(input)
    /\ Done.op = "end" =>
          /\ Done.r = Bool(Index = Len(input))
          /\ Index = Done.before

C13_Witness ==
    /\ Done.op = "end"
    /\ Len(input) = 3
    /\ Index = 3
    /\ Done.r = Bool(TRUE)
    /\ Top = 2
    /\ stack[1].index = 0
    /\ ~end(stack[1].index)
(* C14: the function given to with_rollback or to option runs once, on a   *)
(* clone made at the Parser's index; when it succeeds the Parser takes the *)
(* index the clone has reached, which for the closure that returns what    *)
(* get returns is the index get reaches on the Parser itself, and the      *)
(* combinator returns the function's value, option wrapped in Some.        *)
C14_CommitOnSuccess ==
    /\ \A k \in 2..Top :
          stack[k].comb \in {"with_rollback", "option"} =>
              /\ stack[k].from = stack[k].start
              /\ stack[k - 1].index = stack[k].start
              /\ stack[k].cbs = <<>>
    /\ (Done.op \in {"with_rollback", "option"} /\ LastCb.ok) =>
              /\ Len(Done.cbs) = 1
              /\ Index = Done.end
              /\ Done.r = IF Done.op = "option" THEN OkSome(LastCb.v[1]) ELSE LastCb
              /\ Done.targets = <<"get">> =>
                    /\ Index = get(Done.before).index
                    /\ LastCb = get(Done.before).result

C14_Witness ==
    /\ Done.op = "with_rollback"
    /\ LastCb.ok
    /\ Done.nested
    /\ Done.before > 0
    /\ Done.end > Done.before + 1
    /\ Index = Done.end
(* C15: list of the closure that calls or of even and odd, over any input  *)
(* of naturals, returns for each element true when it is even and false    *)
(* when it is odd, in order, and leaves the index at the length of the     *)
(* input; over 1, 2, 3 it returns false, true, false.                      *)
C15_ListOrEvenOdd ==
    (Top = 1 /\ Done.op = "list") =>
        /\ Done.r = OkVec([i \in 1..Len(input) |-> input[i] % 2 = 0])
        /\ Index = Len(input)
        /\ input = <<1, 2, 3>> => Done.r = OkVec(<<FALSE, TRUE, FALSE>>)

C15_Witness ==
    /\ Top = 1
    /\ Done.op = "list"
    /\ Done.targets = <<"or_even_odd">>
    /\ input = <<1, 2, 3>>
    /\ Done.r = OkVec(<<FALSE, TRUE, FALSE>>)
    /\ Index = 3
(* C17: a fatal error that a function returns inside nested combinators    *)
(* reaches the outermost caller as it is.  No combinator runs a function   *)
(* after one of its functions returned a fatal error; and when the call a  *)
(* nested function made has returned a fatal error, the next step is the   *)
(* return of the enclosing combinator to its caller with that same error,  *)
(* not another alternative, another iteration or a success.                *)
C17_FatalReachesCaller ==
    /\ [](\A k \in 2..Top : \A i \in 1..Len(stack[k].cbs) : ~Fatal(stack[k].cbs[i]))
    /\ [][(Top >= 2 /\ Done.op \in Combinators /\ Fatal(Done.r)) =>
              /\ Len(stack') = Top - 1
              /\ stack'[Top - 1].res.op = stack[Top].comb
              /\ stack'[Top - 1].res.r = Done.r
              /\ stack'[Top - 1].index = stack[Top - 1].index]_vars

C17_Witness ==
    /\ Top = 3
    /\ stack[2].comb = "option"
    /\ stack[3].comb = "list"
    /\ Len(stack[3].cbs) >= 1
    /\ Done.op = "or"
    /\ Len(Done.targets) = 2
    /\ Len(Done.cbs) = 1
    /\ Fatal(Done.r)
    /\ Done.r = Err(TError(TRUE))
(* C16: no operation changes the input, neither its elements nor its      *)
(* length: the caller's Parser and every clone read the sequence that the  *)
(* Parser was made from.                                                   *)
C16_InputImmutable == [][input' = input]_vars

C16_Witness ==
    /\ input = <<1, 2, 3>>
    /\ Top = 3
    /\ stack[1].index = 1
    /\ stack[2].index = 2
    /\ stack[3].index = 3
    /\ stack[3].res.op = "get"
    /\ stack[3].res.r = Ok(3)
(* C18: the index of a Parser after a call of get, peek, with_rollback,     *)
(* option, list or or on it is at least its index before the call, whether *)
(* the call succeeded or failed; while a combinator runs, the Parser it    *)
(* was called on is not behind the index it had at the call, and a clone   *)
(* is not behind the index it was made at.                                 *)
C18_IndexNeverDecreases ==
    /\ \A k \in 1..Top :
          stack[k].res.op # "none" => stack[k].index >= stack[k].res.before
    /\ \A k \in 2..Top :
          /\ stack[k - 1].index >= stack[k].start
          /\ stack[k].index >= stack[k].from

C18_Witness ==
    /\ Done.op = "with_rollback"
    /\ ~Done.r.ok
    /\ Done.before = 2
    /\ Done.end = 3
    /\ Index = 2
    /\ Top = 1
(* C19: a list call in which every successful invocation of the function   *)
(* left its clone past the index the clone was made at ends: called at     *)
(* index i of an input of length n, it makes at most n - i successful      *)
(* invocations, then one that fails.  A list call with more invocations    *)
(* has had one that succeeded without consuming.                           *)
C19_ListTerminates ==
    /\ \A k \in 2..Top :
          (stack[k].comb = "list" /\ ~stack[k].idle) =>
              /\ Len(stack[k].cbs) <= Len(input) - stack[k].start
              /\ stack[k - 1].index >= stack[k].start + Len(stack[k].cbs)
    /\ Done.op = "list" =>
          /\ ~LastCb.ok
          /\ \A i \in 1..(Len(Done.cbs) - 1) : Done.cbs[i].ok
          /\ ~Done.idle => Len(Done.cbs) - 1 <= Len(input) - Done.before

C19_Witness ==
    /\ Done.op = "list"
    /\ Done.targets = <<"any">>
    /\ ~Done.idle
    /\ Len(input) = 3
    /\ Done.before = 0
    /\ Len(Done.cbs) = 4
    /\ Index = 3
(* C20: or returns aggregate of the errors exactly when each of its N      *)
(* alternatives has run and failed with an error that is not fatal; then   *)
(* aggregate has received N errors, the i-th the error of the i-th         *)
(* alternative, none of them fatal.  While or runs, errors holds the       *)
(* errors of the alternatives that have run, in order.  With no            *)
(* alternative or returns aggregate of no errors, not a success.           *)
C20_Aggregate ==
    /\ \A k \in 2..Top :
          stack[k].comb = "or" =>
              /\ stack[k].errors = ErrorsOf(stack[k].cbs)
              /\ Len(stack[k].cbs) = stack[k].alt - 1
              /\ stack[k].alt <= Len(stack[k].targets)
    /\ Done.op = "or" =>
          LET N == Len(Done.targets)
              aggregated == Done.r = Err(aggregate(ErrorsOf(Done.cbs)))
              allFailed == /\ Len(Done.cbs) = N
                           /\ \A i \in 1..N : Ordinary(Done.cbs[i])
          IN  /\ aggregated <=> allFailed
              /\ aggregated =>
                    /\ Len(Done.r.err.parts) = N
                    /\ \A i \in 1..N : /\ Done.r.err.parts[i] = Done.cbs[i].err
                                        /\ ~is_fatal(Done.r.err.parts[i])
              /\ ~aggregated => (Len(Done.cbs) > 0 /\ Done.r = LastCb)
              /\ N = 0 => (aggregated /\ Done.r = Err(aggregate(<<>>)) /\ ~Done.r.ok)

C20_Witness ==
    /\ Done.op = "or"
    /\ Len(Done.targets) = 2
    /\ Len(Done.cbs) = 2
    /\ Done.cbs[1].err.tag = "agg"
    /\ Done.cbs[2].err.tag = "user"
    /\ Done.r = Err(aggregate(<<Done.cbs[1].err, TError(FALSE)>>))
    /\ Len(Done.cbs[1].err.parts) = 2

===========================================================================
